---- MODULE Spec2Model ----
(***************************************************************************)
(* Model of the Pawnote backend (backend/server.py): the AI chat endpoint  *)
(* POST /api/chat (chat_with_ai), the history read and clear endpoints,    *)
(* the pet deletion and the reminder toggle, and the collections they work *)
(* on.  Spec runs the chat calls one at a time on a stored history of any  *)
(* length; SpecCare adds the pet-care endpoints and the pet references;    *)
(* SpecImage varies the image string; SpecOverlap lets chat calls overlap. *)
(*                                                                         *)
(* A Python str is modelled as a tuple of tokens (one token per character  *)
(* or per word); the token " " is whitespace and "," is the comma.         *)
(* Optional[str] adds the value None.  A chat call is split at its awaits: *)
(* the code between two awaits runs without interruption on the event      *)
(* loop, so each action is one await together with the code that follows   *)
(* it up to the next await.                                                *)
(***************************************************************************)
EXTENDS Integers, Sequences, FiniteSets, TLC

\* ------------------------------------------------------------------ bounds

\* Chat calls started in one run.
MaxCalls == 1
\* Request slots: chat calls that can be in flight at the same time.
NumCallers == 2
\* Exchanges (user turn + assistant turn) already stored for session "s1"
\* when the run starts: any number from 0 to MaxPrefill.
MaxPrefill == 25

\* The longest image string (in tokens) of the chat requests that vary the image.
MaxImageLen == 3
\* The longest pet_name (in characters) of the access requests.
MaxNameLen == 3

\* ------------------------------------------------------- program constants

\* to_list(20) of the chat's history query.
FetchCap == 20
\* history[-10:] of the replay loop.
ReplayCap == 10
\* limit: int = 50 of get_chat_history.
DefaultLimit == 50

\* ------------------------------------------------------------------ strings

None == <<"<None>">>

\* Python truthiness of an Optional[str]: None and "" are false.
Truthy(s) == s # None /\ s # <<>>

IsSpace(t) == t = " "

RECURSIVE LStrip(_)
LStrip(s) == IF s # <<>> /\ IsSpace(Head(s)) THEN LStrip(Tail(s)) ELSE s

RECURSIVE RStrip(_)
RStrip(s) ==
    IF s # <<>> /\ IsSpace(s[Len(s)]) THEN RStrip(SubSeq(s, 1, Len(s) - 1)) ELSE s

\* str.strip()
Strip(s) == RStrip(LStrip(s))

\* ',' in s
HasComma(s) == \E i \in 1..Len(s) : s[i] = ","

\* The index of the first comma of s at or after position from, or
\* Len(s) + 1 when there is none.
RECURSIVE CommaFrom(_, _)
CommaFrom(s, from) ==
    IF from > Len(s) THEN Len(s) + 1
    ELSE IF s[from] = "," THEN from
    ELSE CommaFrom(s, from + 1)

\* s.split(',')[1] for a string s that holds a comma: the piece between the
\* first comma and the next one (or the end of the string).
SplitSecond(s) ==
    LET first == CommaFrom(s, 1)
        second == CommaFrom(s, first + 1)
    IN  SubSeq(s, first + 1, second - 1)

\* ------------------------------------------------------------------ domains

Sessions == {"s1", "s2"}
Callers == 1..NumCallers

ImageUri == <<"data:image/png;base64", ",", "AAAA">>
Messages == {<<>>, <<" ">>, <<"hi">>}
Images == {None, ImageUri}
PetIds == {None, <<"p1">>}
Replies == {<<"ok">>}

\* The limits of the history reads: none given (the default), and two small ones.
Limits == {0, 1, DefaultLimit}

\* All strings of exactly n tokens, and of at most MaxImageLen tokens, over a
\* prefix token, the comma and a payload token.
ImageTokens == {"data:image/png;base64", ",", "AAAA"}
StringsOfLen(n) == [1..n -> ImageTokens]
ImageStrings == UNION {StringsOfLen(n) : n \in 0..MaxImageLen}

DefaultImagePrompt ==
    <<"What do you see in this image? Please provide any relevant pet care advice based on what you observe.">>
ImagePlaceholder == <<"[Image]">>
Persona == <<"You are Pawnote AI, a friendly and supportive pet care assistant.">>

\* class ChatRequest
ChatRequest ==
    [session_id : Sessions, message : Messages, image : Images, pet_id : PetIds]

\* class ChatMessage; id and created_at are the values that uuid.uuid4() and
\* datetime.utcnow() give when the object is built.
ChatMessage(session_id, role, content, image, pet_id, id, created_at) ==
    [id |-> id, session_id |-> session_id, role |-> role, content |-> content,
     image |-> image, pet_id |-> pet_id, created_at |-> created_at]

\* class Pet (the fields the chat reads).  weight is Optional[float]: the chat
\* tests its truthiness and prints it, so it is kept as its printed form, and
\* None stands for both None and 0.0.
StoredPets ==
    { [id |-> <<"p1">>, name |-> <<"Rex">>, birth_date |-> <<"2022-01-15">>,
       pet_type |-> <<"dog">>, custom_pet_type |-> None,
       breed |-> <<"Golden Retriever">>, weight |-> <<"65.0">>, gender |-> <<"male">>] }

\* class Pet, by its fields.
Pet(id, name, pet_type, custom_pet_type, breed, weight, gender) ==
    [id |-> id, name |-> name, birth_date |-> <<"2022-01-15">>, pet_type |-> pet_type,
     custom_pet_type |-> custom_pet_type, breed |-> breed, weight |-> weight,
     gender |-> gender]

\* class Checklist, class VetVisit and class Reminder (the fields the handlers
\* read or write).
Checklist(id, pet_id, title, category, items) ==
    [id |-> id, pet_id |-> pet_id, title |-> title, category |-> category,
     items |-> items, updated_at |-> 0]
VetVisit(id, pet_id, reason, instructions) ==
    [id |-> id, pet_id |-> pet_id, reason |-> reason, instructions |-> instructions]
Reminder(id, pet_id, title, is_active) ==
    [id |-> id, pet_id |-> pet_id, title |-> title, is_active |-> is_active]

\* The documents the pet-care endpoints start from: a dog, an "other" pet with a
\* custom species, one without, one with an empty one, and a cat that carries
\* a custom species all the same; records of the first two pets, and records
\* whose pet_id names no stored pet.
CarePets ==
    { Pet(<<"p1">>, <<"Rex">>, <<"dog">>, None, <<"Golden Retriever">>, <<"65.0">>,
          <<"male">>),
      Pet(<<"p2">>, <<"Bun">>, <<"other">>, <<"Rabbit">>, None, None, <<"female">>),
      Pet(<<"p3">>, <<"Sly">>, <<"other">>, None, None, None, None),
      Pet(<<"p4">>, <<"Moe">>, <<"other">>, <<>>, None, None, None),
      Pet(<<"p5">>, <<"Tom">>, <<"cat">>, <<"Tiger">>, None, None, None) }
CareChecklists ==
    { Checklist("c1", <<"p1">>, <<"Morning">>, "daily", <<>>),
      Checklist("c2", <<"p1">>, <<"Pills">>, "medication", <<>>),
      Checklist("c3", <<"p2">>, <<"Feeding">>, "feeding", <<>>),
      Checklist("c4", <<"p9">>, <<"Walks">>, "daily", <<>>) }
CareVetVisits ==
    { VetVisit("v1", <<"p1">>, <<"Checkup">>, <<>>),
      VetVisit("v2", <<"p2">>, <<"Vaccine">>, <<>>),
      VetVisit("v3", <<"p9">>, <<"Checkup">>, <<>>) }
CareReminders ==
    { Reminder("r1", <<"p1">>, <<"Walk">>, TRUE),
      Reminder("r2", <<"p1">>, <<"Pill">>, FALSE),
      Reminder("r3", <<"p2">>, <<"Feed">>, TRUE),
      Reminder("r4", <<"p9">>, <<"Walk">>, TRUE) }

\* The ids the pet-care requests name: stored ones and one that is not stored.
DeletedPetIds == {<<"p1">>, <<"p2">>, <<"p7">>}
ToggledReminderIds == {"r1", "r2", "r7"}

\* The chat requests that vary the pet reference: none, the empty string, each
\* stored pet and a pet that is not stored; and two on another session.
PetRefs == {None, <<>>, <<"p1">>, <<"p2">>, <<"p3">>, <<"p4">>, <<"p5">>, <<"p7">>}
PetRequests ==
    {[session_id |-> "s1", message |-> <<"hi">>, image |-> None, pet_id |-> p] :
        p \in PetRefs}
    \cup {[session_id |-> "s2", message |-> <<"hi">>, image |-> None, pet_id |-> p] :
        p \in {None, <<"p1">>}}

\* The chat requests of the calls that run at the same time: the same text on
\* either session.
OverlapRequests ==
    {[session_id |-> s, message |-> <<"hi">>, image |-> None, pet_id |-> None] :
        s \in Sessions}

\* class ChecklistItem
ChecklistItem(id, text, completed, due_time) ==
    [id |-> id, text |-> text, completed |-> completed, due_time |-> due_time]

\* The documents the item toggles and the conversions start from: a checklist
\* of three items, the third with the id of the first (update_checklist
\* stores the ids a client sends), and a checklist of one item; a vet visit
\* with two instructions, one with one and one with none.
RecordChecklists ==
    { Checklist("c1", <<"p1">>, <<"Morning">>, "daily",
                << ChecklistItem("i1", <<"Feed">>, FALSE, None),
                   ChecklistItem("i2", <<"Walk">>, TRUE, <<"08:00">>),
                   ChecklistItem("i1", <<"Brush">>, FALSE, None) >>),
      Checklist("c2", <<"p2">>, <<"Pills">>, "medication",
                << ChecklistItem("i1", <<"Pill">>, FALSE, <<"09:00">>) >>) }
RecordVetVisits ==
    { VetVisit("v1", <<"p1">>, <<"Checkup">>, << <<"Rest">>, <<"Pills">> >>),
      VetVisit("v2", <<"p2">>, <<"Vaccine">>, <<>>),
      VetVisit("v3", <<"p2">>, <<"Injury">>, << <<"Bandage">> >>) }

\* The ids the toggle and conversion requests name: stored ones and one that
\* is not stored.
ToggledChecklistIds == {"c1", "c2", "c7"}
ToggledItemIds == {"i1", "i2", "i7"}
ConvertedVisitIds == {"v1", "v2", "v3", "v7"}

\* The characters of the pet names of the access requests, one token per
\* character: letters in both cases and the dot.
NameChars == {"r", "R", "e", "x", "."}
PetNames == UNION {[1..n -> NameChars] : n \in 0..MaxNameLen}
BirthDates == {<<"2022-01-15">>, <<"2023-05-01">>}

\* class AccessRequest
AccessRequest == [pet_name : PetNames, birth_date : BirthDates]

\* The pets the access requests are matched against.
AccessPets ==
    { Pet(<<"p1">>, <<"R", "e", "x">>, <<"dog">>, None, None, None, None),
      [Pet(<<"p2">>, <<"e", "x">>, <<"cat">>, None, None, None, None)
          EXCEPT !.birth_date = <<"2023-05-01">>] }

\* A letter without its case.
Lower(ch) == IF ch = "R" THEN "r" ELSE ch

\* {"$regex": "^" + pattern + "$", "$options": "i"} on a string, for a pattern
\* of letters and dots: the pattern is not escaped, so a dot in it matches any
\* character, and a letter matches itself in either case.
RegexMatches(pattern, str) ==
    /\ Len(pattern) = Len(str)
    /\ \A i \in 1..Len(str) : pattern[i] = "." \/ Lower(pattern[i]) = Lower(str[i])

\* The chat requests that vary the image string.
ImageRequests ==
    {[session_id |-> "s1", message |-> <<"hi">>, image |-> i, pet_id |-> None] :
        i \in ImageStrings}

\* ------------------------------------------------------------------- state

VARIABLES
    EMERGENT_LLM_KEY,   \* the provider credential read from the environment
    pets,               \* db.pets: a set of Pet documents
    chat_messages,      \* db.chat_messages: ChatMessage documents, in insertion order
    clock,              \* the last value datetime.utcnow() returned; every read
                        \* returns a later time than the read before it
    uuids,              \* the number of ids uuid.uuid4() has issued
    opened,             \* the number of LlmChat provider sessions constructed
    started,            \* the number of chat calls started
    call,               \* call[c]: the chat call running in request slot c
    checklists,         \* db.checklists: a set of Checklist documents
    vet_visits,         \* db.vet_visits: a set of VetVisit documents
    reminders,          \* db.reminders: a set of Reminder documents
    response,           \* the answer to the client's latest request to an endpoint
                        \* other than the chat (the chat's answer is in call[c]);
                        \* NoResponse once the client has sent a chat request
    jobs                \* jobs[c]: the request in slot c to a handler that reads
                        \* a document and writes it back (an item or reminder toggle)

vars == <<EMERGENT_LLM_KEY, pets, chat_messages, clock, uuids, opened, started, call,
          checklists, vet_visits, reminders, response, jobs>>

\* ----------------------------------------------------- the document store

\* The order of cursor.sort("created_at", 1).
CreatedBefore(a, b) == a.created_at < b.created_at

\* cursor.sort("created_at", 1): ascending; SortSeq moves a document in front
\* of the ones it is CreatedBefore only, so documents with equal created_at
\* stay in insertion order.
SortByCreatedAt(q) == SortSeq(q, CreatedBefore)

\* cursor.to_list(length): the first `length` documents of the cursor.
ToList(q, length) == SubSeq(q, 1, IF Len(q) < length THEN Len(q) ELSE length)

\* db.chat_messages.find({"session_id": s}).sort("created_at", 1).to_list(length)
FindSorted(store, session_id, length) ==
    ToList(SortByCreatedAt(SelectSeq(store, LAMBDA m : m.session_id = session_id)),
           length)

\* q[-n:]
LastN(q, n) == SubSeq(q, IF Len(q) > n THEN Len(q) - n + 1 ELSE 1, Len(q))

\* db.pets.find_one({"id": pet_id}): the set of matches (empty: None)
FindPet(pet_id) == {p \in pets : p.id = pet_id}

\* Turn i of the 2k turns left on session "s1" by k earlier exchanges: the
\* user turn and then the assistant turn of each; odd exchanges were text-only
\* ("hi"), even ones image-only ("" with an image).
PrefillTurn(i) ==
    LET j == (i + 1) \div 2
    IN  IF i % 2 = 1
        THEN ChatMessage("s1", "user",
                         IF j % 2 = 0 THEN ImagePlaceholder ELSE <<"hi">>,
                         IF j % 2 = 0 THEN ImageUri ELSE None,
                         None, i, i)
        ELSE ChatMessage("s1", "assistant", <<"ok">>, None, None, i, i)

Prefill(k) == SubSeq([i \in 1..(2 * k) |-> PrefillTurn(i)], 1, 2 * k)

\* ------------------------------------------------------------ pet context

\* A species that is the custom label whenever there is one.
PetTypeStr_AnyCustom(pet) ==
    IF Truthy(pet.custom_pet_type) THEN pet.custom_pet_type ELSE pet.pet_type

\* The species shown for a pet: the custom label for an "other" pet that has one.
PetTypeStr(pet) ==
    IF pet.pet_type = <<"other">> /\ Truthy(pet.custom_pet_type)
    THEN pet.custom_pet_type
    ELSE pet.pet_type

\* The pet_context f-string of chat_with_ai for a stored pet.
PetContext(pet) ==
    <<"\n\nCurrent pet context: ">> \o pet.name \o <<" is a">>
        \o (IF Truthy(pet.gender) THEN <<" ">> \o pet.gender ELSE <<>>)
        \o <<" ">> \o PetTypeStr(pet)
        \o (IF Truthy(pet.breed) THEN <<" (">> \o pet.breed \o <<")">> ELSE <<>>)
        \o <<", born on ">> \o pet.birth_date
        \o (IF Truthy(pet.weight) THEN <<", weighing ">> \o pet.weight \o <<" lb">>
            ELSE <<>>)
        \o <<".">>

\* pet_context after the lookup of request.pet_id: "" when no pet is found.
ResolvedContext(pet_id) ==
    IF FindPet(pet_id) = {} THEN <<>> ELSE PetContext(CHOOSE p \in FindPet(pet_id) : TRUE)

SystemMessage(pet_context) == Persona \o pet_context

\* ------------------------------------------------------------ provider data

\* UserMessage(text=..., file_contents=[...])
UserMessage(text, file_contents) == [text |-> text, file_contents |-> file_contents]

\* FileContent(content_type="image/jpeg", file_content_base64=...)
FileContent(image_data) ==
    [content_type |-> "image/jpeg", file_content_base64 |-> image_data]

\* image_data of the new turn: the data-URI prefix cut off when there is a comma.
ImageData(image) == IF HasComma(image) THEN SplitSecond(image) ELSE image

\* message_text sent with an image.
ImageMessageText(message) ==
    IF Truthy(message) THEN Strip(message) ELSE DefaultImagePrompt

\* The UserMessage of the new turn (with or without image).
NewUserMessage(request) ==
    IF Truthy(request.image)
    THEN UserMessage(ImageMessageText(request.message),
                     <<FileContent(ImageData(request.image))>>)
    ELSE UserMessage(request.message, <<>>)

\* A replay loop without the role test.
IsReplayed_AnyRole(msg) == msg.role \in {"user", "assistant"}

\* Whether the replay loop sends a history message: msg.get("role") == "user".
IsReplayed(msg) == msg.role = "user"

\* A replay that attaches the stored image again.
ReplayMessage_WithImage(msg) ==
    UserMessage(msg.content,
                IF Truthy(msg.image) THEN <<FileContent(msg.image)>> ELSE <<>>)

\* The UserMessage the replay loop sends for a history message.
ReplayMessage(msg) == UserMessage(msg.content, <<>>)

\* content of the persisted user turn: request.message or "[Image]"
UserContent(request) ==
    IF Truthy(request.message) THEN request.message ELSE ImagePlaceholder

\* -------------------------------------------------------------- chat calls

\* The answer of an endpoint other than the chat: the endpoint and its
\* arguments (the path argument, then the query argument if it has one), the
\* HTTP status, the "message" or error detail, and the body.
Answer(op, arg, status, message, body) ==
    [op |-> op, arg |-> arg, status |-> status, message |-> message, body |-> body]
NoResponse == Answer("", <<>>, 0, "", <<>>)

NoRequest == [session_id |-> "", message |-> <<>>, image |-> None, pet_id |-> None]
NoMessage == ChatMessage("", "", <<>>, None, None, 0, 0)

\* A free request slot.
\*   pc       where the call is suspended: idle, pet, history, send, insert_user,
\*            insert_assistant, done
\*   request  the ChatRequest
\*   before   db.chat_messages as it was when the call started
\*   history, chat, pos  the fetched turns, the LlmChat session (0: none) and
\*            the index in history[-10:] the replay loop has reached
\*   sent     the provider sends of this call, in order: the session they went
\*            to, the UserMessage, and the id of the replayed turn (0: new turn)
\*   response, user_msg, assistant_msg  the locals of the same names
\*   wrote    the ids of the turns this call inserted
\*   status, detail, body  the HTTP status (0: not yet answered), the error
\*            detail and the returned response
\*   raised   the await that raised: "", pet, history, replay, submit,
\*            insert_user, insert_assistant
IdleCall ==
    [pc |-> "idle", request |-> NoRequest, before |-> <<>>, pet_context |-> <<>>,
     history |-> <<>>, chat |-> 0, system_message |-> <<>>, pos |-> 0, sent |-> <<>>,
     response |-> <<>>, user_msg |-> NoMessage, assistant_msg |-> NoMessage,
     wrote |-> {}, status |-> 0, detail |-> "", body |-> <<>>, raised |-> ""]

\* The locals of a toggle request in a slot:
\*   pc      idle, write (the document was read, the update is awaited), done
\*   op, id  the handler and the id of the document it names
\*   item_id, completed  the other arguments of toggle_checklist_item
\*   before  the collection as it was when the request arrived
\*   items, new_status, checklist  the locals of the same names
\*   status, detail  the HTTP status (0: not yet answered) and the error detail
NoChecklist == Checklist("", None, <<>>, "", <<>>)
IdleJob ==
    [pc |-> "idle", op |-> "", id |-> "", item_id |-> "", completed |-> FALSE,
     before |-> {}, items |-> <<>>, new_status |-> FALSE, checklist |-> NoChecklist,
     status |-> 0, detail |-> ""]

TypeOK ==
    /\ EMERGENT_LLM_KEY \in {<<>>, <<"sk-emergent">>}
    /\ clock \in Nat /\ uuids \in Nat /\ opened \in Nat /\ started \in Nat
    /\ DOMAIN call = Callers
    /\ \A c \in Callers :
         call[c].pc \in {"idle", "pet", "history", "send", "insert_user",
                         "insert_assistant", "done"}
    /\ \A i \in 1..Len(chat_messages) :
         /\ chat_messages[i].role \in {"user", "assistant"}
         /\ chat_messages[i].session_id \in Sessions
    /\ \A d \in reminders : d.is_active \in BOOLEAN
    /\ \A d \in checklists \cup vet_visits \cup reminders : d.pet_id # None
    /\ response.status \in {0, 200, 404}

\* The server starts with or without the credential in its environment, and
\* on a database that holds the turns of 0..MaxPrefill earlier exchanges.
Init ==
    /\ EMERGENT_LLM_KEY \in {<<>>, <<"sk-emergent">>}
    /\ pets = StoredPets
    /\ \E k \in 0..MaxPrefill :
         /\ chat_messages = Prefill(k)
         /\ clock = 2 * k
         /\ uuids = 2 * k
    /\ opened = 0
    /\ started = 0
    /\ call = [c \in Callers |-> IdleCall]
    /\ checklists = {}
    /\ vet_visits = {}
    /\ reminders = {}
    /\ response = NoResponse
    /\ jobs = [c \in Callers |-> IdleJob]

\* ---------------------------------------------------------------- actions

\* No chat call is in flight.
Quiescent == \A c \in Callers : call[c].pc = "idle"

\* The request slots are interchangeable: a new call takes the lowest free one.
FreeSlot(c) ==
    /\ call[c].pc = "idle"
    /\ \A d \in Callers : d < c => call[d].pc # "idle"

\* The call answers with an HTTP error.
Failed(c, status, detail, raised) ==
    [call[c] EXCEPT !.pc = "done", !.status = status, !.detail = detail,
                    !.raised = raised]

\* history[-10:]
Window(c) == LastN(call[c].history, ReplayCap)

\* The index in history[-10:] of the next message the replay loop sends, 0
\* when the loop is over.
NextReplay(c) ==
    LET left == {i \in call[c].pos..Len(Window(c)) : IsReplayed(Window(c)[i])}
    IN  IF left = {} THEN 0 ELSE CHOOSE i \in left : \A j \in left : i <= j

Send(c, message, source) ==
    Append(call[c].sent, [chat |-> call[c].chat, message |-> message, source |-> source])

\* A handler without the credential check.
ChatStart_NoKeyCheck(c, request) ==
    /\ FreeSlot(c)
    /\ started' = started + 1
    /\ call' = [call EXCEPT ![c] =
         [IdleCall EXCEPT !.pc = IF Truthy(request.pet_id) THEN "pet" ELSE "history",
                          !.request = request,
                          !.before = chat_messages]]
    /\ UNCHANGED <<EMERGENT_LLM_KEY, jobs, pets, chat_messages, clock, uuids, opened>>
    /\ response' = NoResponse
    /\ UNCHANGED <<checklists, vet_visits, reminders>>

\* POST /api/chat arrives: the credential check, and the code up to the
\* first await (the pet lookup when a pet_id is given, else the history query).
ChatStart(c, request) ==
    /\ FreeSlot(c)
    /\ started' = started + 1
    /\ call' = [call EXCEPT ![c] =
         IF ~Truthy(EMERGENT_LLM_KEY)
         THEN [IdleCall EXCEPT !.pc = "done", !.request = request,
                               !.before = chat_messages, !.status = 500,
                               !.detail = "AI service not configured"]
         ELSE [IdleCall EXCEPT !.pc = IF Truthy(request.pet_id) THEN "pet"
                                      ELSE "history",
                               !.request = request,
                               !.before = chat_messages]]
    /\ UNCHANGED <<EMERGENT_LLM_KEY, jobs, pets, chat_messages, clock, uuids, opened>>
    /\ response' = NoResponse
    /\ UNCHANGED <<checklists, vet_visits, reminders>>

\* A pet lookup that refuses a reference to a pet that is not stored.
ResolvePet_NotFound404(c) ==
    /\ call[c].pc = "pet"
    /\ call' = [call EXCEPT ![c] =
         IF FindPet(call[c].request.pet_id) = {}
         THEN Failed(c, 404, "Pet not found", "")
         ELSE [call[c] EXCEPT !.pc = "history",
                              !.pet_context = ResolvedContext(call[c].request.pet_id)]]
    /\ UNCHANGED <<EMERGENT_LLM_KEY, jobs, pets, chat_messages, clock, uuids, opened, started>>
    /\ UNCHANGED <<checklists, vet_visits, reminders, response>>

\* await db.pets.find_one(...) returns; pet_context is built.
ResolvePet(c) ==
    /\ call[c].pc = "pet"
    /\ call' = [call EXCEPT ![c].pc = "history",
                            ![c].pet_context = ResolvedContext(call[c].request.pet_id)]
    /\ UNCHANGED <<EMERGENT_LLM_KEY, jobs, pets, chat_messages, clock, uuids, opened, started>>
    /\ UNCHANGED <<checklists, vet_visits, reminders, response>>

\* A call in slot d on this session has fetched its history and not yet
\* stored its last turn or failed.
Exchanging(d, session_id) ==
    /\ call[d].pc \in {"send", "insert_user", "insert_assistant"}
    /\ call[d].request.session_id = session_id

\* A history fetch that waits for the calls on its session that fetched before
\* it (a lock per session).
FetchHistory_Serialized(c) ==
    /\ call[c].pc = "history"
    /\ \A d \in Callers \ {c} : ~Exchanging(d, call[c].request.session_id)
    /\ opened' = opened + 1
    /\ call' = [call EXCEPT ![c].pc = "send",
                            ![c].history = FindSorted(chat_messages,
                                                      call[c].request.session_id,
                                                      FetchCap),
                            ![c].system_message = SystemMessage(call[c].pet_context),
                            ![c].chat = opened + 1,
                            ![c].pos = 1]
    /\ UNCHANGED <<EMERGENT_LLM_KEY, jobs, pets, chat_messages, clock, uuids, started>>
    /\ UNCHANGED <<checklists, vet_visits, reminders, response>>

\* await db.chat_messages.find(...).sort(...).to_list(20) returns; the system
\* message and the LlmChat session are built and the replay loop starts.
FetchHistory(c) ==
    /\ call[c].pc = "history"
    /\ opened' = opened + 1
    /\ call' = [call EXCEPT ![c].pc = "send",
                            ![c].history = FindSorted(chat_messages,
                                                      call[c].request.session_id,
                                                      FetchCap),
                            ![c].system_message = SystemMessage(call[c].pet_context),
                            ![c].chat = opened + 1,
                            ![c].pos = 1]
    /\ UNCHANGED <<EMERGENT_LLM_KEY, jobs, pets, chat_messages, clock, uuids, started>>
    /\ UNCHANGED <<checklists, vet_visits, reminders, response>>

\* A store read raises (outside the try block): the framework answers 500.
StoreReadFail(c) ==
    /\ call[c].pc \in {"pet", "history"}
    /\ call' = [call EXCEPT ![c] = Failed(c, 500, "Internal Server Error", call[c].pc)]
    /\ UNCHANGED <<EMERGENT_LLM_KEY, jobs, pets, chat_messages, clock, uuids, opened, started>>
    /\ UNCHANGED <<checklists, vet_visits, reminders, response>>

\* await chat.send_message(...) of the replay loop returns.
ReplayOk(c) ==
    /\ call[c].pc = "send"
    /\ NextReplay(c) # 0
    /\ LET msg == Window(c)[NextReplay(c)]
       IN  call' = [call EXCEPT ![c].sent = Send(c, ReplayMessage(msg), msg.id),
                                ![c].pos = NextReplay(c) + 1]
    /\ UNCHANGED <<EMERGENT_LLM_KEY, jobs, pets, chat_messages, clock, uuids, opened, started>>
    /\ UNCHANGED <<checklists, vet_visits, reminders, response>>

\* await chat.send_message(...) of the replay loop raises.
ReplayFail(c) ==
    /\ call[c].pc = "send"
    /\ NextReplay(c) # 0
    /\ LET msg == Window(c)[NextReplay(c)]
       IN  call' = [call EXCEPT ![c] =
             [Failed(c, 500, "AI service error", "replay")
                 EXCEPT !.sent = Send(c, ReplayMessage(msg), msg.id)]]
    /\ UNCHANGED <<EMERGENT_LLM_KEY, jobs, pets, chat_messages, clock, uuids, opened, started>>
    /\ UNCHANGED <<checklists, vet_visits, reminders, response>>

\* await chat.send_message(user_message) of the new turn returns `reply`;
\* user_msg is built and its insert is started.
SubmitOk(c, reply) ==
    /\ call[c].pc = "send"
    /\ NextReplay(c) = 0
    /\ clock' = clock + 1
    /\ uuids' = uuids + 1
    /\ LET request == call[c].request
       IN  call' = [call EXCEPT ![c].pc = "insert_user",
                                ![c].sent = Send(c, NewUserMessage(request), 0),
                                ![c].pos = Len(Window(c)) + 1,
                                ![c].response = reply,
                                ![c].user_msg =
                                    ChatMessage(request.session_id, "user",
                                                UserContent(request), request.image,
                                                request.pet_id, uuids + 1, clock + 1)]
    /\ UNCHANGED <<EMERGENT_LLM_KEY, jobs, pets, chat_messages, opened, started>>
    /\ UNCHANGED <<checklists, vet_visits, reminders, response>>

\* A handler that has stored the user turn before it submits it.
SubmitFail_UserTurnStored(c) ==
    /\ call[c].pc = "send"
    /\ NextReplay(c) = 0
    /\ clock' = clock + 1
    /\ uuids' = uuids + 1
    /\ LET request == call[c].request
           user_msg == ChatMessage(request.session_id, "user", UserContent(request),
                                   request.image, request.pet_id, uuids + 1, clock + 1)
       IN  /\ chat_messages' = Append(chat_messages, user_msg)
           /\ call' = [call EXCEPT ![c] =
                [Failed(c, 500, "AI service error", "submit")
                    EXCEPT !.sent = Send(c, NewUserMessage(request), 0),
                           !.wrote = {user_msg.id}]]
    /\ UNCHANGED <<EMERGENT_LLM_KEY, jobs, pets, opened, started>>
    /\ UNCHANGED <<checklists, vet_visits, reminders, response>>

\* await chat.send_message(user_message) of the new turn raises.
SubmitFail(c) ==
    /\ call[c].pc = "send"
    /\ NextReplay(c) = 0
    /\ call' = [call EXCEPT ![c] =
         [Failed(c, 500, "AI service error", "submit")
             EXCEPT !.sent = Send(c, NewUserMessage(call[c].request), 0)]]
    /\ UNCHANGED <<EMERGENT_LLM_KEY, jobs, pets, chat_messages, clock, uuids, opened, started>>
    /\ UNCHANGED <<checklists, vet_visits, reminders, response>>

\* A handler that copies the image of the request to the assistant turn.
InsertUserOk_AssistantImage(c) ==
    /\ call[c].pc = "insert_user"
    /\ chat_messages' = Append(chat_messages, call[c].user_msg)
    /\ clock' = clock + 1
    /\ uuids' = uuids + 1
    /\ call' = [call EXCEPT ![c].pc = "insert_assistant",
                            ![c].wrote = @ \cup {call[c].user_msg.id},
                            ![c].assistant_msg =
                                ChatMessage(call[c].request.session_id, "assistant",
                                            call[c].response, call[c].request.image,
                                            call[c].request.pet_id,
                                            uuids + 1, clock + 1)]
    /\ UNCHANGED <<EMERGENT_LLM_KEY, jobs, pets, opened, started>>
    /\ UNCHANGED <<checklists, vet_visits, reminders, response>>

\* await db.chat_messages.insert_one(user_msg.dict()) returns; assistant_msg
\* is built and its insert is started.
InsertUserOk(c) ==
    /\ call[c].pc = "insert_user"
    /\ chat_messages' = Append(chat_messages, call[c].user_msg)
    /\ clock' = clock + 1
    /\ uuids' = uuids + 1
    /\ call' = [call EXCEPT ![c].pc = "insert_assistant",
                            ![c].wrote = @ \cup {call[c].user_msg.id},
                            ![c].assistant_msg =
                                ChatMessage(call[c].request.session_id, "assistant",
                                            call[c].response, None,
                                            call[c].request.pet_id,
                                            uuids + 1, clock + 1)]
    /\ UNCHANGED <<EMERGENT_LLM_KEY, jobs, pets, opened, started>>
    /\ UNCHANGED <<checklists, vet_visits, reminders, response>>

\* await db.chat_messages.insert_one(user_msg.dict()) raises.
InsertUserFail(c) ==
    /\ call[c].pc = "insert_user"
    /\ call' = [call EXCEPT ![c] = Failed(c, 500, "AI service error", "insert_user")]
    /\ UNCHANGED <<EMERGENT_LLM_KEY, jobs, pets, chat_messages, clock, uuids, opened, started>>
    /\ UNCHANGED <<checklists, vet_visits, reminders, response>>

\* A handler that answers without storing the assistant turn.
InsertAssistantOk_NotStored(c) ==
    /\ call[c].pc = "insert_assistant"
    /\ call' = [call EXCEPT ![c].pc = "done",
                            ![c].status = 200,
                            ![c].body = call[c].response]
    /\ UNCHANGED <<EMERGENT_LLM_KEY, jobs, pets, chat_messages, clock, uuids, opened, started>>
    /\ UNCHANGED <<checklists, vet_visits, reminders, response>>

\* await db.chat_messages.insert_one(assistant_msg.dict()) returns; the
\* handler returns {"response": response}.
InsertAssistantOk(c) ==
    /\ call[c].pc = "insert_assistant"
    /\ chat_messages' = Append(chat_messages, call[c].assistant_msg)
    /\ call' = [call EXCEPT ![c].pc = "done",
                            ![c].wrote = @ \cup {call[c].assistant_msg.id},
                            ![c].status = 200,
                            ![c].body = call[c].response]
    /\ UNCHANGED <<EMERGENT_LLM_KEY, jobs, pets, clock, uuids, opened, started>>
    /\ UNCHANGED <<checklists, vet_visits, reminders, response>>

\* await db.chat_messages.insert_one(assistant_msg.dict()) raises.
InsertAssistantFail(c) ==
    /\ call[c].pc = "insert_assistant"
    /\ call' = [call EXCEPT ![c] =
                    Failed(c, 500, "AI service error", "insert_assistant")]
    /\ UNCHANGED <<EMERGENT_LLM_KEY, jobs, pets, chat_messages, clock, uuids, opened, started>>
    /\ UNCHANGED <<checklists, vet_visits, reminders, response>>

\* The answer has been delivered: the request slot is free again.
ChatReturn(c) ==
    /\ call[c].pc = "done"
    /\ call' = [call EXCEPT ![c] = IdleCall]
    /\ UNCHANGED <<EMERGENT_LLM_KEY, jobs, pets, chat_messages, clock, uuids, opened, started>>
    /\ UNCHANGED <<checklists, vet_visits, reminders, response>>

\* A history read that ignores its limit.
get_chat_history_Unlimited(store, session_id, limit) ==
    LET messages == FindSorted(store, session_id, Len(store))
    IN  [i \in 1..Len(messages) |->
            [role |-> messages[i].role, content |-> messages[i].content,
             created_at |-> messages[i].created_at]]

\* GET /api/chat/history/{session_id}?limit=
get_chat_history(store, session_id, limit) ==
    LET messages == FindSorted(store, session_id, limit)
    IN  [i \in 1..Len(messages) |->
            [role |-> messages[i].role, content |-> messages[i].content,
             created_at |-> messages[i].created_at]]

\* GET /api/chat/history/{session_id}?limit= arrives and is answered.
GetHistory(session_id, limit) ==
    /\ response' = Answer("get_chat_history", <<session_id, limit>>, 200, "",
                          LET body == get_chat_history(chat_messages, session_id, limit)
                          IN  SubSeq(body, 1, Len(body)))
    /\ UNCHANGED <<EMERGENT_LLM_KEY, jobs, pets, chat_messages, clock, uuids, opened, started,
                   call, checklists, vet_visits, reminders>>

\* A delete that stops at the first match (delete_one).
DeleteMany_FirstOnly(store, session_id) ==
    LET hits == {i \in 1..Len(store) : store[i].session_id = session_id}
    IN  IF hits = {} THEN store
        ELSE LET first == CHOOSE i \in hits : \A j \in hits : i <= j
             IN  SubSeq(store, 1, first - 1) \o SubSeq(store, first + 1, Len(store))

\* db.chat_messages.delete_many({"session_id": session_id})
DeleteMany(store, session_id) ==
    SelectSeq(store, LAMBDA m : m.session_id # session_id)

\* DELETE /api/chat/history/{session_id}: delete_many, then the fixed answer.
clear_chat_history(session_id) ==
    /\ chat_messages' = DeleteMany(chat_messages, session_id)
    /\ response' = Answer("clear_chat_history", <<session_id>>, 200, "Chat history cleared",
                          <<>>)
    /\ UNCHANGED <<EMERGENT_LLM_KEY, jobs, pets, clock, uuids, opened, started, call>>
    /\ UNCHANGED <<checklists, vet_visits, reminders>>

\* One client at a time: a request is sent only when the one before it has
\* been answered.
\* A pet deletion that also deletes the chat turns that name the pet.
delete_pet_WithTurns(pet_id) ==
    IF \E p \in pets : p.id = pet_id
    THEN /\ pets' = pets \ {CHOOSE p \in pets : p.id = pet_id}
         /\ checklists' = {d \in checklists : d.pet_id # pet_id}
         /\ vet_visits' = {d \in vet_visits : d.pet_id # pet_id}
         /\ reminders' = {d \in reminders : d.pet_id # pet_id}
         /\ chat_messages' = SelectSeq(chat_messages, LAMBDA m : m.pet_id # pet_id)
         /\ response' = Answer("delete_pet", pet_id, 200, "Pet deleted successfully",
                               <<>>)
         /\ UNCHANGED <<EMERGENT_LLM_KEY, jobs, clock, uuids, opened, started, call>>
    ELSE /\ response' = Answer("delete_pet", pet_id, 404, "Pet not found", <<>>)
         /\ UNCHANGED <<EMERGENT_LLM_KEY, jobs, pets, chat_messages, clock, uuids, opened,
                        started, call, checklists, vet_visits, reminders>>

\* A pet deletion that leaves the pet's reminders behind.
delete_pet_KeepsReminders(pet_id) ==
    IF \E p \in pets : p.id = pet_id
    THEN /\ pets' = pets \ {CHOOSE p \in pets : p.id = pet_id}
         /\ checklists' = {d \in checklists : d.pet_id # pet_id}
         /\ vet_visits' = {d \in vet_visits : d.pet_id # pet_id}
         /\ response' = Answer("delete_pet", pet_id, 200, "Pet deleted successfully",
                               <<>>)
         /\ UNCHANGED <<EMERGENT_LLM_KEY, jobs, chat_messages, clock, uuids, opened, started,
                        call, reminders>>
    ELSE /\ response' = Answer("delete_pet", pet_id, 404, "Pet not found", <<>>)
         /\ UNCHANGED <<EMERGENT_LLM_KEY, jobs, pets, chat_messages, clock, uuids, opened,
                        started, call, checklists, vet_visits, reminders>>

\* DELETE /api/pets/{pet_id}
delete_pet(pet_id) ==
    IF \E p \in pets : p.id = pet_id
    THEN /\ pets' = pets \ {CHOOSE p \in pets : p.id = pet_id}
         /\ checklists' = {d \in checklists : d.pet_id # pet_id}
         /\ vet_visits' = {d \in vet_visits : d.pet_id # pet_id}
         /\ reminders' = {d \in reminders : d.pet_id # pet_id}
         /\ response' = Answer("delete_pet", pet_id, 200, "Pet deleted successfully",
                               <<>>)
         /\ UNCHANGED <<EMERGENT_LLM_KEY, jobs, chat_messages, clock, uuids, opened, started,
                        call>>
    ELSE /\ response' = Answer("delete_pet", pet_id, 404, "Pet not found", <<>>)
         /\ UNCHANGED <<EMERGENT_LLM_KEY, jobs, pets, chat_messages, clock, uuids, opened,
                        started, call, checklists, vet_visits, reminders>>

\* update_one({"id": reminder_id}, {"$set": {"is_active": new_status}}) on a
\* collection of reminders.
SetIsActive(docs, reminder_id, new_status) ==
    {IF d.id = reminder_id THEN [d EXCEPT !.is_active = new_status] ELSE d : d \in docs}

\* A toggle that only ever switches a reminder off.
toggle_reminder_OffOnly(reminder_id) ==
    IF \E d \in reminders : d.id = reminder_id
    THEN /\ reminders' = SetIsActive(reminders, reminder_id, FALSE)
         /\ response' = Answer("toggle_reminder", <<reminder_id>>, 200, "", <<FALSE>>)
         /\ UNCHANGED <<EMERGENT_LLM_KEY, jobs, pets, chat_messages, clock, uuids,
                        opened, started, call, checklists, vet_visits>>
    ELSE /\ response' = Answer("toggle_reminder", <<reminder_id>>, 404,
                               "Reminder not found", <<>>)
         /\ UNCHANGED <<EMERGENT_LLM_KEY, jobs, pets, chat_messages, clock, uuids, opened,
                        started, call, checklists, vet_visits, reminders>>

\* PATCH /api/reminders/{reminder_id}/toggle
toggle_reminder(reminder_id) ==
    IF \E d \in reminders : d.id = reminder_id
    THEN LET reminder == CHOOSE d \in reminders : d.id = reminder_id
             new_status == ~reminder.is_active
         IN  /\ reminders' = SetIsActive(reminders, reminder_id, new_status)
             /\ response' = Answer("toggle_reminder", <<reminder_id>>, 200, "",
                                   <<new_status>>)
             /\ UNCHANGED <<EMERGENT_LLM_KEY, jobs, pets, chat_messages, clock, uuids,
                            opened, started, call, checklists, vet_visits>>
    ELSE /\ response' = Answer("toggle_reminder", <<reminder_id>>, 404,
                               "Reminder not found", <<>>)
         /\ UNCHANGED <<EMERGENT_LLM_KEY, jobs, pets, chat_messages, clock, uuids, opened,
                        started, call, checklists, vet_visits, reminders>>

\* A new request takes the lowest free job slot.
FreeJob(c) ==
    /\ jobs[c].pc = "idle"
    /\ \A d \in Callers : d < c => jobs[d].pc # "idle"

\* No request in a job slot is between its read and its write.
NoJobWriting == \A c \in Callers : jobs[c].pc # "write"

\* The loop of toggle_checklist_item over the items it read: the first item
\* with this id gets the completed flag.
SetCompleted(items, item_id, completed) ==
    LET hits == {i \in 1..Len(items) : items[i].id = item_id}
    IN  IF hits = {} THEN items
        ELSE LET first == CHOOSE i \in hits : \A j \in hits : i <= j
             IN  [items EXCEPT ![first].completed = completed]

\* PATCH /api/checklists/{checklist_id}/items/{item_id}?completed= arrives and
\* await db.checklists.find_one(...) returns: 404, or the items are changed in
\* memory and the update is awaited.
ToggleItemRead(c, checklist_id, item_id, completed) ==
    /\ FreeJob(c)
    /\ LET job == [IdleJob EXCEPT !.op = "toggle_checklist_item", !.id = checklist_id,
                                  !.item_id = item_id, !.completed = completed,
                                  !.before = checklists]
       IN  jobs' = [jobs EXCEPT ![c] =
              IF \E d \in checklists : d.id = checklist_id
              THEN LET checklist == CHOOSE d \in checklists : d.id = checklist_id
                   IN  [job EXCEPT !.pc = "write",
                                   !.items = SetCompleted(checklist.items, item_id,
                                                          completed)]
              ELSE [job EXCEPT !.pc = "done", !.status = 404,
                               !.detail = "Checklist not found"]]
    /\ UNCHANGED <<EMERGENT_LLM_KEY, pets, chat_messages, clock, uuids, opened, started,
                   call, checklists, vet_visits, reminders, response>>

\* await db.checklists.update_one({"id": checklist_id}, {"$set": {"items":
\* items, "updated_at": datetime.utcnow()}}) returns; success is returned.
ToggleItemWrite(c) ==
    /\ jobs[c].pc = "write"
    /\ jobs[c].op = "toggle_checklist_item"
    /\ clock' = clock + 1
    /\ checklists' = {IF d.id = jobs[c].id
                      THEN [d EXCEPT !.items = jobs[c].items, !.updated_at = clock + 1]
                      ELSE d : d \in checklists}
    /\ jobs' = [jobs EXCEPT ![c].pc = "done", ![c].status = 200]
    /\ UNCHANGED <<EMERGENT_LLM_KEY, pets, chat_messages, uuids, opened, started, call,
                   vet_visits, reminders, response>>

\* PATCH /api/reminders/{reminder_id}/toggle arrives and await
\* db.reminders.find_one(...) returns: 404, or the new status is the negation
\* of the is_active that was read and the update is awaited.
ToggleReminderRead(c, reminder_id) ==
    /\ FreeJob(c)
    /\ LET job == [IdleJob EXCEPT !.op = "toggle_reminder", !.id = reminder_id]
       IN  jobs' = [jobs EXCEPT ![c] =
              IF \E d \in reminders : d.id = reminder_id
              THEN LET reminder == CHOOSE d \in reminders : d.id = reminder_id
                   IN  [job EXCEPT !.pc = "write", !.new_status = ~reminder.is_active]
              ELSE [job EXCEPT !.pc = "done", !.status = 404,
                               !.detail = "Reminder not found"]]
    /\ UNCHANGED <<EMERGENT_LLM_KEY, pets, chat_messages, clock, uuids, opened, started,
                   call, checklists, vet_visits, reminders, response>>

\* await db.reminders.update_one({"id": reminder_id}, {"$set": {"is_active":
\* new_status}}) returns; the new status is returned.
ToggleReminderWrite(c) ==
    /\ jobs[c].pc = "write"
    /\ jobs[c].op = "toggle_reminder"
    /\ reminders' = SetIsActive(reminders, jobs[c].id, jobs[c].new_status)
    /\ jobs' = [jobs EXCEPT ![c].pc = "done", ![c].status = 200]
    /\ UNCHANGED <<EMERGENT_LLM_KEY, pets, chat_messages, clock, uuids, opened, started,
                   call, checklists, vet_visits, response>>

\* The checklist that convert_vet_to_checklist builds from a visit: one item
\* per instruction, each with a fresh id, then the checklist with its own id
\* and its two timestamps.
VetChecklist(visit) ==
    LET k == Len(visit.instructions)
        items == [i \in 1..k |->
                     ChecklistItem(ToString(uuids + i), visit.instructions[i], FALSE, None)]
    IN  [Checklist(ToString(uuids + k + 1), visit.pet_id,
                   <<"Vet Instructions - ">> \o visit.reason, "vet", items)
            EXCEPT !.updated_at = clock + 2]

\* A conversion that does not refuse a visit without instructions.
ConvertRead_NoEmptyCheck(c, visit_id) ==
    /\ FreeJob(c)
    /\ LET job == [IdleJob EXCEPT !.op = "convert_vet_to_checklist", !.id = visit_id,
                                  !.before = checklists]
           found == \E d \in vet_visits : d.id = visit_id
           visit == CHOOSE d \in vet_visits : d.id = visit_id
       IN  IF ~found
           THEN /\ jobs' = [jobs EXCEPT ![c] =
                      [job EXCEPT !.pc = "done", !.status = 404,
                                  !.detail = "Vet visit not found"]]
                /\ UNCHANGED <<clock, uuids>>
           ELSE /\ jobs' = [jobs EXCEPT ![c] =
                      [job EXCEPT !.pc = "write", !.checklist = VetChecklist(visit)]]
                /\ uuids' = uuids + Len(visit.instructions) + 1
                /\ clock' = clock + 2
    /\ UNCHANGED <<EMERGENT_LLM_KEY, pets, chat_messages, opened, started, call,
                   checklists, vet_visits, reminders, response>>

\* POST /api/vet-visits/{visit_id}/to-checklist arrives and await
\* db.vet_visits.find_one(...) returns: 404, 400, or the checklist is built and
\* its insert is awaited.
ConvertRead(c, visit_id) ==
    /\ FreeJob(c)
    /\ LET job == [IdleJob EXCEPT !.op = "convert_vet_to_checklist", !.id = visit_id,
                                  !.before = checklists]
           found == \E d \in vet_visits : d.id = visit_id
           visit == CHOOSE d \in vet_visits : d.id = visit_id
       IN  IF ~found
           THEN /\ jobs' = [jobs EXCEPT ![c] =
                      [job EXCEPT !.pc = "done", !.status = 404,
                                  !.detail = "Vet visit not found"]]
                /\ UNCHANGED <<clock, uuids>>
           ELSE IF visit.instructions = <<>>
           THEN /\ jobs' = [jobs EXCEPT ![c] =
                      [job EXCEPT !.pc = "done", !.status = 400,
                                  !.detail = "No instructions to convert"]]
                /\ UNCHANGED <<clock, uuids>>
           ELSE /\ jobs' = [jobs EXCEPT ![c] =
                      [job EXCEPT !.pc = "write", !.checklist = VetChecklist(visit)]]
                /\ uuids' = uuids + Len(visit.instructions) + 1
                /\ clock' = clock + 2
    /\ UNCHANGED <<EMERGENT_LLM_KEY, pets, chat_messages, opened, started, call,
                   checklists, vet_visits, reminders, response>>

\* await db.checklists.insert_one(checklist.dict()) returns; the checklist is
\* returned.
ConvertWrite(c) ==
    /\ jobs[c].pc = "write"
    /\ jobs[c].op = "convert_vet_to_checklist"
    /\ checklists' = checklists \cup {jobs[c].checklist}
    /\ jobs' = [jobs EXCEPT ![c].pc = "done", ![c].status = 200]
    /\ UNCHANGED <<EMERGENT_LLM_KEY, pets, chat_messages, clock, uuids, opened, started,
                   call, vet_visits, reminders, response>>

\* POST /api/access: one find_one on name and birth date; any pet that matches
\* may be the one the store returns.
access_dashboard(request) ==
    LET found == {p \in pets : /\ RegexMatches(request.pet_name, p.name)
                               /\ p.birth_date = request.birth_date}
        arg == <<request.pet_name, request.birth_date>>
    IN  /\ IF found = {}
           THEN response' = Answer("access_dashboard", arg, 404,
                                   "Pet not found. Please check the name and birth date.",
                                   <<>>)
           ELSE \E pet \in found :
                    response' = Answer("access_dashboard", arg, 200, "", <<pet>>)
        /\ UNCHANGED <<EMERGENT_LLM_KEY, jobs, pets, chat_messages, clock, uuids, opened,
                       started, call, checklists, vet_visits, reminders>>

\* A step of the chat call in slot c after its start.
ChatStep(c) ==
    \/ ResolvePet(c)
    \/ FetchHistory(c)
    \/ StoreReadFail(c)
    \/ ReplayOk(c)
    \/ ReplayFail(c)
    \/ \E reply \in Replies : SubmitOk(c, reply)
    \/ SubmitFail(c)
    \/ InsertUserOk(c)
    \/ InsertUserFail(c)
    \/ InsertAssistantOk(c)
    \/ InsertAssistantFail(c)
    \/ ChatReturn(c)

Next ==
    \/ \E c \in Callers, request \in ChatRequest :
          Quiescent /\ started < MaxCalls /\ ChatStart(c, request)
    \/ \E c \in Callers : ResolvePet(c)
    \/ \E c \in Callers : FetchHistory(c)
    \/ \E c \in Callers : StoreReadFail(c)
    \/ \E c \in Callers : ReplayOk(c)
    \/ \E c \in Callers : ReplayFail(c)
    \/ \E c \in Callers, reply \in Replies : SubmitOk(c, reply)
    \/ \E c \in Callers : SubmitFail(c)
    \/ \E c \in Callers : InsertUserOk(c)
    \/ \E c \in Callers : InsertUserFail(c)
    \/ \E c \in Callers : InsertAssistantOk(c)
    \/ \E c \in Callers : InsertAssistantFail(c)
    \/ \E c \in Callers : ChatReturn(c)
    \/ \E s \in Sessions : Quiescent /\ clear_chat_history(s)

Spec == Init /\ [][Next]_vars

\* The chat with calls one at a time and a store whose writes do not fail: a
\* store read and a provider send may still raise.
NextWritesOk ==
    \/ \E c \in Callers, request \in ChatRequest :
          Quiescent /\ started < MaxCalls /\ ChatStart(c, request)
    \/ \E c \in Callers : ResolvePet(c)
    \/ \E c \in Callers : FetchHistory(c)
    \/ \E c \in Callers : StoreReadFail(c)
    \/ \E c \in Callers : ReplayOk(c)
    \/ \E c \in Callers : ReplayFail(c)
    \/ \E c \in Callers, reply \in Replies : SubmitOk(c, reply)
    \/ \E c \in Callers : SubmitFail(c)
    \/ \E c \in Callers : InsertUserOk(c)
    \/ \E c \in Callers : InsertAssistantOk(c)
    \/ \E c \in Callers : ChatReturn(c)
    \/ \E s \in Sessions : Quiescent /\ clear_chat_history(s)

SpecWritesOk == Init /\ [][NextWritesOk]_vars

\* The pet-care service: the stored pets and their records, requests handled
\* one at a time, with chat requests that vary the pet reference.
InitCare ==
    /\ EMERGENT_LLM_KEY \in {<<>>, <<"sk-emergent">>}
    /\ pets = CarePets
    /\ \E k \in {0, MaxPrefill} :
         /\ chat_messages = Prefill(k)
         /\ clock = 2 * k
         /\ uuids = 2 * k
    /\ opened = 0
    /\ started = 0
    /\ call = [c \in Callers |-> IdleCall]
    /\ checklists = CareChecklists
    /\ vet_visits = CareVetVisits
    /\ reminders = CareReminders
    /\ response = NoResponse
    /\ jobs = [c \in Callers |-> IdleJob]

NextCare ==
    \/ \E c \in Callers, request \in PetRequests :
          Quiescent /\ started < MaxCalls /\ ChatStart(c, request)
    \/ \E c \in Callers : ChatStep(c)
    \/ \E s \in Sessions : Quiescent /\ clear_chat_history(s)
    \/ \E s \in Sessions, limit \in Limits : Quiescent /\ GetHistory(s, limit)
    \/ \E pet_id \in DeletedPetIds : Quiescent /\ delete_pet(pet_id)
    \/ \E reminder_id \in ToggledReminderIds : Quiescent /\ toggle_reminder(reminder_id)

SpecCare == InitCare /\ [][NextCare]_vars

\* The chat with calls that overlap: a call starts whenever a request slot is
\* free, whatever the other calls are doing, until every slot has been used.
InitOverlap ==
    /\ EMERGENT_LLM_KEY = <<"sk-emergent">>
    /\ pets = StoredPets
    /\ chat_messages = <<>>
    /\ clock = 0
    /\ uuids = 0
    /\ opened = 0
    /\ started = 0
    /\ call = [c \in Callers |-> IdleCall]
    /\ checklists = {}
    /\ vet_visits = {}
    /\ reminders = {}
    /\ response = NoResponse
    /\ jobs = [c \in Callers |-> IdleJob]

\* A step of the chat call in slot c after its start, for a request that
\* names no pet: the call goes from the credential check to the history fetch.
ChatStepNoPet(c) ==
    \/ FetchHistory(c)
    \/ StoreReadFail(c)
    \/ ReplayOk(c)
    \/ ReplayFail(c)
    \/ \E reply \in Replies : SubmitOk(c, reply)
    \/ SubmitFail(c)
    \/ InsertUserOk(c)
    \/ InsertUserFail(c)
    \/ InsertAssistantOk(c)
    \/ InsertAssistantFail(c)
    \/ ChatReturn(c)

NextOverlap ==
    \/ \E c \in Callers, request \in OverlapRequests :
          started < NumCallers /\ ChatStart(c, request)
    \/ \E c \in Callers : ChatStepNoPet(c)

SpecOverlap == InitOverlap /\ [][NextOverlap]_vars

\* The checklists and vet visits, with requests handled one at a time: a request
\* arrives when no other is between its read and its write.
InitRecords ==
    /\ EMERGENT_LLM_KEY = <<"sk-emergent">>
    /\ pets = CarePets
    /\ chat_messages = <<>>
    /\ clock = 0
    /\ uuids = 0
    /\ opened = 0
    /\ started = 0
    /\ call = [c \in Callers |-> IdleCall]
    /\ checklists = RecordChecklists
    /\ vet_visits = RecordVetVisits
    /\ reminders = CareReminders
    /\ response = NoResponse
    /\ jobs = [c \in Callers |-> IdleJob]

NextRecords ==
    \/ \E c \in Callers, checklist_id \in ToggledChecklistIds,
          item_id \in ToggledItemIds, completed \in BOOLEAN :
          NoJobWriting /\ ToggleItemRead(c, checklist_id, item_id, completed)
    \/ \E c \in Callers : ToggleItemWrite(c)
    \/ \E c \in Callers, visit_id \in ConvertedVisitIds :
          NoJobWriting /\ ConvertRead(c, visit_id)
    \/ \E c \in Callers : ConvertWrite(c)

SpecRecords == InitRecords /\ [][NextRecords]_vars

\* The toggles with requests that overlap: a request may be read while
\* another is between its find_one and its update_one.
NextRace ==
    \/ \E c \in Callers, checklist_id \in ToggledChecklistIds,
          item_id \in ToggledItemIds, completed \in BOOLEAN :
          ToggleItemRead(c, checklist_id, item_id, completed)
    \/ \E c \in Callers : ToggleItemWrite(c)
    \/ \E c \in Callers, reminder_id \in ToggledReminderIds :
          ToggleReminderRead(c, reminder_id)
    \/ \E c \in Callers : ToggleReminderWrite(c)

SpecRace == InitRecords /\ [][NextRace]_vars

\* The same toggles with requests handled one at a time.
NextRaceSerial == NoJobWriting /\ NextRace

SpecRaceSerial == InitRecords /\ [][NextRaceSerial]_vars

\* The access endpoint on two stored pets.
InitAccess ==
    /\ EMERGENT_LLM_KEY = <<"sk-emergent">>
    /\ pets = AccessPets
    /\ chat_messages = <<>>
    /\ clock = 0
    /\ uuids = 0
    /\ opened = 0
    /\ started = 0
    /\ call = [c \in Callers |-> IdleCall]
    /\ checklists = {}
    /\ vet_visits = {}
    /\ reminders = {}
    /\ response = NoResponse
    /\ jobs = [c \in Callers |-> IdleJob]

NextAccess == \E request \in AccessRequest : access_dashboard(request)

SpecAccess == InitAccess /\ [][NextAccess]_vars

\* The chat alone, with a credential, on an empty session or after one
\* exchange, and requests that vary the image string.
InitImage ==
    /\ EMERGENT_LLM_KEY = <<"sk-emergent">>
    /\ pets = StoredPets
    /\ \E k \in {0, 1} :
         /\ chat_messages = Prefill(k)
         /\ clock = 2 * k
         /\ uuids = 2 * k
    /\ opened = 0
    /\ started = 0
    /\ call = [c \in Callers |-> IdleCall]
    /\ checklists = {}
    /\ vet_visits = {}
    /\ reminders = {}
    /\ response = NoResponse
    /\ jobs = [c \in Callers |-> IdleJob]

NextImage ==
    \/ \E c \in Callers, request \in ImageRequests :
          Quiescent /\ started < MaxCalls /\ ChatStart(c, request)
    \/ \E c \in Callers : ChatStepNoPet(c)

SpecImage == InitImage /\ [][NextImage]_vars

\* ------------------------------------------------------- claim vocabulary

\* The turns of one session in a store, in insertion order.
SessionTurns(store, session_id) ==
    SelectSeq(store, LAMBDA m : m.session_id = session_id)

\* The n most recent turns of a session (largest created_at), oldest first.
MostRecent(store, session_id, n) ==
    LastN(SortByCreatedAt(SessionTurns(store, session_id)), n)

Answered(c) == call[c].pc = "done"
Succeeded(c) == Answered(c) /\ call[c].status = 200

\* The turn of the fetched history that a replay send was made for.
SourceTurn(c, i) ==
    CHOOSE m \in {call[c].history[k] : k \in 1..Len(call[c].history)} :
        m.id = call[c].sent[i].source

\* p is a contiguous piece of s.
IsPieceOf(p, s) == \E i \in 1..(Len(s) + 1), j \in 0..Len(s) : SubSeq(s, i, j) = p

\* -------------------------------------------------------------------- C1

\* C1: a chat call in which a provider send raised (a replay send or the send
\* of the new turn) is answered with a 500-class status, has inserted no turn,
\* and leaves db.chat_messages exactly as it was when the call started.
C1_ProviderFailurePersistsNothing ==
    \A c \in Callers :
        call[c].raised \in {"replay", "submit"} =>
            /\ Answered(c)
            /\ call[c].status \in 500..599
            /\ call[c].wrote = {}
            /\ chat_messages = call[c].before

\* A call on a session with stored turns whose second replay send raised.
C1_Witness ==
    \E c \in Callers :
        /\ Answered(c)
        /\ call[c].raised = "replay"
        /\ Len(call[c].sent) >= 2
        /\ SessionTurns(call[c].before, call[c].request.session_id) # <<>>

\* -------------------------------------------------------------------- C2

\* C2 as stated: after every successful chat call the history read of its
\* session with the default limit is 2 entries longer than before the call
\* and ends with a user entry followed by an assistant entry.
C2_HistoryGrowsByTwo ==
    \A c \in Callers :
        Succeeded(c) =>
            LET s == call[c].request.session_id
                old == get_chat_history(call[c].before, s, DefaultLimit)
                new == get_chat_history(chat_messages, s, DefaultLimit)
            IN  /\ Len(new) = Len(old) + 2
                /\ new[Len(new) - 1].role = "user"
                /\ new[Len(new)].role = "assistant"

\* C2 amended: the same, for a session that held at most DefaultLimit - 2
\* turns before the call (the read returns the first DefaultLimit turns).
C2_HistoryGrowsByTwoBelowLimit ==
    \A c \in Callers :
        LET s == call[c].request.session_id
            old == get_chat_history(call[c].before, s, DefaultLimit)
            new == get_chat_history(chat_messages, s, DefaultLimit)
        IN  (Succeeded(c) /\ Len(SessionTurns(call[c].before, s)) + 2 <= DefaultLimit) =>
                /\ Len(new) = Len(old) + 2
                /\ new[Len(new) - 1].role = "user"
                /\ new[Len(new)].role = "assistant"

\* A successful call on a session that held exactly DefaultLimit - 2 turns.
C2_Witness ==
    \E c \in Callers :
        /\ Succeeded(c)
        /\ Len(SessionTurns(call[c].before, call[c].request.session_id)) + 2
               = DefaultLimit
        /\ Len(get_chat_history(chat_messages, call[c].request.session_id,
                                DefaultLimit)) = DefaultLimit

\* -------------------------------------------------------------------- C3

\* C3: a chat call answered with an error, whatever step raised, has left
\* none of its turns in db.chat_messages.
C3_FailedCallLeavesNoTurn ==
    \A c \in Callers :
        (Answered(c) /\ call[c].status # 200) =>
            \A i \in 1..Len(chat_messages) : chat_messages[i].id \notin call[c].wrote

\* -------------------------------------------------------------------- C4

\* C4: with the provider credential absent, every chat call is answered 500
\* "AI service not configured" at once: no LlmChat session is ever built, no
\* provider send is made, no turn is inserted, db.chat_messages is unchanged.
C4_NoCredentialFailsFast ==
    ~Truthy(EMERGENT_LLM_KEY) =>
        /\ opened = 0
        /\ \A c \in Callers :
             /\ call[c].pc \in {"idle", "done"}
             /\ call[c].sent = <<>>
             /\ call[c].wrote = {}
             /\ call[c].chat = 0
             /\ Answered(c) =>
                  /\ call[c].status = 500
                  /\ call[c].detail = "AI service not configured"
                  /\ chat_messages = call[c].before

\* A call on a session with stored turns, answered without the credential.
C4_Witness ==
    /\ ~Truthy(EMERGENT_LLM_KEY)
    /\ \E c \in Callers :
         /\ Answered(c)
         /\ SessionTurns(call[c].before, call[c].request.session_id) # <<>>

\* -------------------------------------------------------------------- C5

\* C5: the turns a chat call fetches for context are the min(n, FetchCap) most
\* recent turns of its session, oldest first (db.chat_messages is as the call
\* read it for as long as the call is in its provider sends).
C5_FetchesMostRecent ==
    \A c \in Callers :
        call[c].pc = "send" =>
            call[c].history =
                MostRecent(chat_messages, call[c].request.session_id, FetchCap)

\* -------------------------------------------------------------------- C6

\* The ids of the turns the replay loop of call c has sent.
ReplayedIds(c) ==
    {call[c].sent[i].source : i \in {k \in 1..Len(call[c].sent) :
                                        call[c].sent[k].source # 0}}

\* C6: once the replay loop of a call is over, the turns it has replayed are
\* exactly the user turns among the ReplayCap most recent turns of the session
\* (and so at most ReplayCap of them).
C6_ReplaysRecentUserTurns ==
    \A c \in Callers :
        call[c].pc = "insert_user" =>
            LET recent == MostRecent(chat_messages, call[c].request.session_id,
                                     ReplayCap)
            IN  /\ ReplayedIds(c) =
                     {recent[i].id : i \in {k \in 1..Len(recent) :
                                               recent[k].role = "user"}}
                /\ Cardinality(ReplayedIds(c)) <= ReplayCap

\* -------------------------------------------------------------------- C7

\* C7: the provider sends of a call all go to the LlmChat session built in
\* that call; the replay sends come first, one per turn, each for a user turn
\* of the fetched history with the text of that turn, in ascending created_at
\* order; the send of the new turn is the last one and happens once, after all
\* user turns of history[-10:] were sent; and the call inserts a turn only
\* after the send of the new turn has returned.
C7_SendOrder ==
    \A c \in Callers :
        LET sent == call[c].sent
            isNew(i) == sent[i].source = 0
            window == Window(c)
        IN  /\ \A i \in 1..Len(sent) :
                 /\ sent[i].chat = call[c].chat
                 /\ call[c].chat >= 1
                 /\ isNew(i) => i = Len(sent)
                 /\ ~isNew(i) =>
                      /\ \E k \in 1..Len(call[c].history) :
                            call[c].history[k].id = sent[i].source
                      /\ SourceTurn(c, i).role = "user"
                      /\ sent[i].message.text = SourceTurn(c, i).content
                 /\ \A j \in 1..Len(sent) :
                      (i < j /\ ~isNew(i) /\ ~isNew(j)) =>
                          SourceTurn(c, i).created_at < SourceTurn(c, j).created_at
            /\ \A d \in Callers :
                 (d # c /\ call[c].chat # 0) => call[d].chat # call[c].chat
            /\ (sent # <<>> /\ isNew(Len(sent))) =>
                 ReplayedIds(c) = {window[k].id : k \in {i \in 1..Len(window) :
                                                           window[i].role = "user"}}
            /\ (call[c].pc \in {"insert_user", "insert_assistant"} \/ call[c].wrote # {}) =>
                 /\ sent # <<>>
                 /\ isNew(Len(sent))
                 /\ call[c].raised \notin {"replay", "submit"}

\* A call that has replayed at least two turns, sent the new turn and
\* inserted its user turn.
C7_Witness ==
    \E c \in Callers :
        /\ call[c].pc = "insert_assistant"
        /\ Len(call[c].sent) >= 3
        /\ Len(call[c].history) > Cardinality(ReplayedIds(c))
        /\ call[c].wrote # {}

\* -------------------------------------------------------------------- C8

\* C8: a replay send carries no file; a send that carries a file is the send
\* of the new turn of a request that has an image, it carries one file, and
\* the payload of that file is a piece of the image of that request.
C8_StoredImagesNotSent ==
    \A c \in Callers :
        \A i \in 1..Len(call[c].sent) :
            LET m == call[c].sent[i]
            IN  /\ m.source # 0 => m.message.file_contents = <<>>
                /\ m.message.file_contents # <<>> =>
                     /\ m.source = 0
                     /\ i = Len(call[c].sent)
                     /\ Truthy(call[c].request.image)
                     /\ Len(m.message.file_contents) = 1
                     /\ IsPieceOf(m.message.file_contents[1].file_content_base64,
                                  call[c].request.image)

\* A call that replayed a turn stored with an image and then sent a new turn
\* with an image.
C8_Witness ==
    \E c \in Callers :
        /\ \E i \in 1..Len(call[c].sent) :
             /\ call[c].sent[i].source # 0
             /\ Truthy(SourceTurn(c, i).image)
        /\ \E i \in 1..Len(call[c].sent) :
             /\ call[c].sent[i].source = 0
             /\ call[c].sent[i].message.file_contents # <<>>

\* -------------------------------------------------------------------- C9

\* C9: a successful chat call has appended exactly two turns, the user turn
\* and then the assistant turn; the user turn has the request's message as
\* content, or "[Image]" when the message is empty or only whitespace, the
\* request's image unchanged and the request's pet_id; the assistant turn has
\* the provider's reply as content, no image and the same pet_id; the answer
\* is the stored assistant content.
C9_PersistedPair ==
    \A c \in Callers :
        Succeeded(c) =>
            LET r == call[c].request
                n == Len(call[c].before)
            IN  /\ Len(chat_messages) = n + 2
                /\ SubSeq(chat_messages, 1, n) = call[c].before
                /\ LET u == chat_messages[n + 1]
                       a == chat_messages[n + 2]
                   IN  /\ u.session_id = r.session_id /\ a.session_id = r.session_id
                       /\ u.role = "user" /\ a.role = "assistant"
                       /\ u.content = IF Strip(r.message) = <<>> THEN ImagePlaceholder
                                      ELSE r.message
                       /\ u.image = r.image
                       /\ u.pet_id = r.pet_id
                       /\ a.content = call[c].response
                       /\ a.image = None
                       /\ a.pet_id = r.pet_id
                       /\ call[c].body = a.content

\* -------------------------------------------------------------------- C10

\* C10: when the request has an image and its message is empty or only
\* whitespace, the text sent with the image is the default prompt; no send
\* carries a file together with an empty text.
C10_DefaultPromptForImageOnly ==
    \A c \in Callers :
        \A i \in 1..Len(call[c].sent) :
            LET m == call[c].sent[i].message
            IN  m.file_contents # <<>> =>
                    /\ m.text # <<>>
                    /\ Strip(call[c].request.message) = <<>> =>
                           m.text = DefaultImagePrompt


\* ------------------------------------------------------------------- C11

\* The part of s after its first comma; s itself when it holds no comma.
AfterFirstComma(s) ==
    IF HasComma(s) THEN SubSeq(s, CommaFrom(s, 1) + 1, Len(s)) ELSE s

\* The sends of call c that carry the new turn with a file attached.
ImageSends(c) ==
    {i \in 1..Len(call[c].sent) :
        call[c].sent[i].source = 0 /\ call[c].sent[i].message.file_contents # <<>>}

\* C11: the payload forwarded to the provider for the image of a chat request
\* is the whole part of the image string after its first comma (the string
\* unchanged when it holds no comma), however many commas the string holds.
C11_PayloadIsRestAfterFirstComma ==
    \A c \in Callers : \A i \in ImageSends(c) :
        call[c].sent[i].message.file_contents[1].file_content_base64
            = AfterFirstComma(call[c].request.image)


\* ------------------------------------------------------------------- C12

\* The latest answer is that of a clear of session s.
ClearedLast(s) == response.op = "clear_chat_history" /\ response.arg = <<s>>

\* C12: a clear of a session is answered with success, whether or not the
\* session had turns; after it the store holds no turn of the session and a
\* history read returns nothing; and a second clear of the same session
\* changes nothing: neither the store nor the answer.
C12_ClearEmptiesSession ==
    \A s \in Sessions :
        ClearedLast(s) =>
            /\ response.status = 200
            /\ response.message = "Chat history cleared"
            /\ SessionTurns(chat_messages, s) = <<>>
            /\ \A limit \in Limits : get_chat_history(chat_messages, s, limit) = <<>>
            /\ ~ENABLED (clear_chat_history(s) /\ vars' # vars)

\* A session with stored turns was cleared while the other session keeps its
\* turns.
C12_Witness ==
    /\ ClearedLast("s1")
    /\ uuids >= 2 * MaxPrefill
    /\ SessionTurns(chat_messages, "s2") # <<>>


\* ------------------------------------------------------------------- C13

\* The latest answer is that of a history read of session s with this limit.
ReadLast(s, limit) ==
    response.op = "get_chat_history" /\ response.arg = <<s, limit>>

\* item is the role, content and created_at of a stored turn of session s.
IsTurnOf(item, s) ==
    \E k \in 1..Len(chat_messages) :
        /\ chat_messages[k].session_id = s
        /\ item.role = chat_messages[k].role
        /\ item.content = chat_messages[k].content
        /\ item.created_at = chat_messages[k].created_at

\* C13: a history read of a session with a limit returns at most `limit`
\* items and no more than the session has turns; every item is a turn of that
\* session, given as exactly role, content and created_at (neither image nor
\* pet_id); the items are in non-decreasing created_at order; and the read
\* changes no stored turn.
C13_HistoryRead ==
    \A s \in Sessions, limit \in Limits :
        ReadLast(s, limit) =>
            LET body == response.body
            IN  /\ response.status = 200
                /\ Len(body) <= limit
                /\ Len(body) <= Len(SessionTurns(chat_messages, s))
                /\ \A i \in 1..Len(body) :
                      /\ DOMAIN body[i] = {"role", "content", "created_at"}
                      /\ IsTurnOf(body[i], s)
                /\ \A i, j \in 1..Len(body) :
                      i < j => body[i].created_at <= body[j].created_at
                /\ ~ENABLED (GetHistory(s, limit) /\ chat_messages' # chat_messages)

\* A read with the default limit of a session that holds more turns than the
\* limit, one of them with an image: the limit cuts the answer.
C13_Witness ==
    /\ ReadLast("s1", DefaultLimit)
    /\ Len(SessionTurns(chat_messages, "s1")) > DefaultLimit
    /\ Len(response.body) = DefaultLimit
    /\ \E k \in 1..Len(chat_messages) : chat_messages[k].image # None


\* ------------------------------------------------------------------- C14

\* The request of call c names no pet, or a pet that is not stored.
NoPetFor(c) ==
    call[c].pc # "idle"
        /\ (~Truthy(call[c].request.pet_id) \/ FindPet(call[c].request.pet_id) = {})

\* The turns that call c inserted and that are still stored.
WrittenBy(c) ==
    SelectSeq(chat_messages, LAMBDA m : m.id \in call[c].wrote)

\* C14: a chat call whose pet reference is absent or names no stored pet is
\* not failed for that: it fails only without a credential or when an await
\* raised; its pet context is empty and its system prompt is the persona
\* alone, as for a call without a pet reference; and the turns it builds and
\* stores carry the pet_id of the request as given.
C14_UnknownPetIsNoError ==
    \A c \in Callers :
        NoPetFor(c) =>
            /\ call[c].status \in {0, 200}
                  \/ call[c].raised # ""
                  \/ call[c].detail = "AI service not configured"
            /\ call[c].pet_context = <<>>
            /\ call[c].chat # 0 => call[c].system_message = Persona
            /\ call[c].user_msg # NoMessage =>
                  call[c].user_msg.pet_id = call[c].request.pet_id
            /\ call[c].assistant_msg # NoMessage =>
                  call[c].assistant_msg.pet_id = call[c].request.pet_id
            /\ \A i \in 1..Len(WrittenBy(c)) :
                  WrittenBy(c)[i].pet_id = call[c].request.pet_id

\* A call that named a pet that is not stored has succeeded, and both its
\* turns are stored with that pet_id.
C14_Witness ==
    \E c \in Callers :
        /\ Succeeded(c)
        /\ Truthy(call[c].request.pet_id)
        /\ NoPetFor(c)
        /\ Len(WrittenBy(c)) = 2
        /\ call[c].system_message = Persona


\* ------------------------------------------------------------------- C15

\* The pet that the request of call c names, when it is stored.
PetOf(c) == CHOOSE pet \in pets : pet.id = call[c].request.pet_id

\* The species the pet context is to show for a pet.
RenderedSpecies(pet) ==
    IF pet.pet_type # <<"other">> THEN pet.pet_type
    ELSE IF pet.custom_pet_type # None /\ pet.custom_pet_type # <<>>
         THEN pet.custom_pet_type
         ELSE <<"other">>

\* The pet context shows this species: it stands between the blank that ends
\* "is a" (or the gender) and the breed or the birth date.
ShowsSpecies(pet_context, pet, species) ==
    IsPieceOf(<<" ">> \o species
                  \o (IF Truthy(pet.breed) THEN <<" (">> ELSE <<", born on ">>),
              pet_context)

\* C15: the species in the pet context of a call that names a stored pet is
\* the custom label when the pet's species is "other" and the label is present
\* and not empty, the literal "other" when the species is "other" without such
\* a label, and the pet's species otherwise, custom label or not.
C15_SpeciesRendering ==
    \A c \in Callers :
        (/\ call[c].pc \notin {"idle", "pet"}
         /\ call[c].raised # "pet"
         /\ Truthy(EMERGENT_LLM_KEY)
         /\ Truthy(call[c].request.pet_id)
         /\ FindPet(call[c].request.pet_id) # {})
        => ShowsSpecies(call[c].pet_context, PetOf(c), RenderedSpecies(PetOf(c)))

\* Past the pet lookup are: a call for an "other" pet shown by its custom
\* label, or one for a cat whose custom label is not shown.
C15_Witness ==
    \E c \in Callers :
        /\ call[c].pc = "history"
        /\ FindPet(call[c].request.pet_id) # {}
        /\ \/ /\ PetOf(c).pet_type = <<"other">>
              /\ ShowsSpecies(call[c].pet_context, PetOf(c), <<"Rabbit">>)
           \/ /\ PetOf(c).custom_pet_type = <<"Tiger">>
              /\ ShowsSpecies(call[c].pet_context, PetOf(c), <<"cat">>)


\* ------------------------------------------------------------------- C16

\* The stored turn is still stored, with every field as it was, after the step.
Kept(turn) ==
    \E j \in 1..Len(chat_messages') : chat_messages'[j] = turn

\* C16: every step leaves every stored turn stored and unchanged, except a
\* clear of the turn's own session: no chat call on any session, no history
\* read, no clear of another session and no pet deletion (that of the pet the
\* turn names included) removes or changes a turn.
C16_TurnsArePermanent ==
    [][\/ chat_messages' = chat_messages
       \/ \A i \in 1..Len(chat_messages) :
             \/ Kept(chat_messages[i])
             \/ clear_chat_history(chat_messages[i].session_id)]_vars

\* The latest answer is that of the deletion of this pet.
DeletedLast(pet_id) ==
    response.op = "delete_pet" /\ response.arg = pet_id /\ response.status = 200

\* A pet was deleted and the turns of a call that named it are stored.
C16_Witness ==
    /\ DeletedLast(<<"p1">>)
    /\ \E i, j \in 1..Len(chat_messages) :
          /\ chat_messages[i].pet_id = <<"p1">> /\ chat_messages[i].role = "user"
          /\ chat_messages[j].pet_id = <<"p1">> /\ chat_messages[j].role = "assistant"


\* ------------------------------------------------------------------- C19

\* The step removes from a collection the documents of this pet and no other:
\* after is what before holds for other pets.
RemovesRecordsOf(pet_id, before, after) ==
    /\ \A d \in after : d \in before /\ d.pet_id # pet_id
    /\ \A d \in before : d.pet_id # pet_id => d \in after

\* C19: the deletion of a stored pet is answered with success and removes the
\* pet and every checklist, vet visit and reminder with its pet_id, and no
\* other pet and no record of another pet_id; the deletion of a pet id that is
\* not stored is answered 404 and removes nothing.
C19_DeletePetCascades ==
    [][\A pet_id \in DeletedPetIds :
          delete_pet(pet_id) =>
              IF \E p \in pets : p.id = pet_id
              THEN /\ response'.status = 200
                   /\ \A p \in pets' : p \in pets /\ p.id # pet_id
                   /\ \A p \in pets : p.id # pet_id => p \in pets'
                   /\ RemovesRecordsOf(pet_id, checklists, checklists')
                   /\ RemovesRecordsOf(pet_id, vet_visits, vet_visits')
                   /\ RemovesRecordsOf(pet_id, reminders, reminders')
              ELSE /\ response'.status = 404
                   /\ response'.message = "Pet not found"
                   /\ UNCHANGED <<pets, checklists, vet_visits, reminders,
                                  chat_messages>>]_vars

\* Pet p1 was deleted: none of its records is left, while the records of pet
\* p2 and those that name no stored pet are all there.
C19_Witness ==
    /\ DeletedLast(<<"p1">>)
    /\ \A d \in checklists \cup vet_visits \cup reminders : d.pet_id # <<"p1">>
    /\ \E d \in checklists : d.pet_id = <<"p2">>
    /\ \E d \in vet_visits : d.pet_id = <<"p2">>
    /\ \E d \in reminders : d.pet_id = <<"p2">>
    /\ \E d \in reminders : d.pet_id = <<"p9">>
    /\ \E p \in pets : p.id = <<"p2">>


\* ------------------------------------------------------------------- C20

\* The stored reminder with this id, in a collection that holds one.
ReminderIn(docs, reminder_id) == CHOOSE d \in docs : d.id = reminder_id

\* The latest answer is that of a toggle of this reminder that succeeded.
ToggledLast(reminder_id) ==
    /\ response.op = "toggle_reminder"
    /\ response.arg = <<reminder_id>>
    /\ response.status = 200

\* C20: a toggle of a stored reminder stores the negation of its is_active and
\* returns the value it stored; every other field of the reminder, every other
\* reminder and every other collection stay as they were; a toggle that
\* follows a toggle of the same reminder stores the opposite of what that one
\* returned, which is the original value; and a toggle of an id that is not
\* stored is answered 404 and changes nothing.
C20_ToggleReminder ==
    [][\A reminder_id \in ToggledReminderIds :
          toggle_reminder(reminder_id) =>
              IF \E d \in reminders : d.id = reminder_id
              THEN LET old == ReminderIn(reminders, reminder_id)
                       new == ReminderIn(reminders', reminder_id)
                   IN  /\ response'.status = 200
                       /\ new.is_active = ~old.is_active
                       /\ response'.body = <<new.is_active>>
                       /\ new = [old EXCEPT !.is_active = new.is_active]
                       /\ reminders' \ {new} = reminders \ {old}
                       /\ ToggledLast(reminder_id) =>
                             <<new.is_active>> # response.body
                       /\ UNCHANGED <<pets, checklists, vet_visits, chat_messages>>
              ELSE /\ response'.status = 404
                   /\ response'.message = "Reminder not found"
                   /\ UNCHANGED <<pets, checklists, vet_visits, reminders,
                                  chat_messages>>]_vars

\* Reminder r2, stored as inactive, was toggled: it is active, the answer says
\* so, and the other reminders are as they were stored.
C20_Witness ==
    /\ ToggledLast("r2")
    /\ response.body = <<TRUE>>
    /\ reminders = SetIsActive(CareReminders, "r2", TRUE)


\* ------------------------------------------------------------------- C17

\* C17: the turns of a session are stored in created_at order: a turn
\* inserted before another turn of its session has a created_at that is not
\* later, whether the two come from one call or from two, overlapping or not.
C17_InsertionOrderIsTimeOrder ==
    \A s \in Sessions :
        LET turns == SessionTurns(chat_messages, s)
        IN  \A i, j \in 1..Len(turns) :
                i < j => turns[i].created_at <= turns[j].created_at


\* ------------------------------------------------------------------- C18

\* Call c made a replay send for the stored turn with this id.
Replayed(c, id) ==
    \E i \in 1..Len(call[c].sent) : call[c].sent[i].source = id

\* C18: chat calls on one session are not serialized: while a call on a
\* session is between its history fetch and its last insert, the history fetch
\* of another call on that session is not held back, it can return at once
\* with the turns stored so far.
C18_NotSerialized ==
    \A c, d \in Callers :
        (/\ c # d
         /\ call[d].pc = "history"
         /\ Exchanging(c, call[d].request.session_id))
        => ENABLED FetchHistory(d)

\* Two calls on one session have both succeeded; the second fetched its
\* history before the first stored its user turn, so it did not replay that
\* turn; and the session's stored turns are user, user, assistant, assistant.
C18_Witness ==
    \E c, d \in Callers :
        /\ c # d
        /\ Succeeded(c) /\ Succeeded(d)
        /\ call[c].request.session_id = call[d].request.session_id
        /\ call[c].user_msg.created_at < call[d].user_msg.created_at
        /\ \A i \in 1..Len(call[d].history) : call[d].history[i].id # call[c].user_msg.id
        /\ ~Replayed(d, call[c].user_msg.id)
        /\ LET turns == SessionTurns(chat_messages, call[c].request.session_id)
           IN  /\ Len(turns) = 4
               /\ turns[1] = call[c].user_msg
               /\ turns[2] = call[d].user_msg
               /\ turns[3] = call[c].assistant_msg
               /\ turns[4] = call[d].assistant_msg


\* ------------------------------------------------------------------- C21

\* The request in slot c is answered and no request has arrived after it.
LatestDone(c) ==
    jobs[c].pc = "done" /\ \A d \in Callers : d > c => jobs[d].pc = "idle"

\* The document with this id in a collection that holds one.
DocIn(docs, id) == CHOOSE d \in docs : d.id = id

\* The index of the first item with this id, 0 when there is none.
FirstItem(items, item_id) ==
    IF \A i \in 1..Len(items) : items[i].id # item_id THEN 0
    ELSE CHOOSE i \in 1..Len(items) :
             items[i].id = item_id /\ \A j \in 1..(i - 1) : items[j].id # item_id

\* C21: an item toggle on a stored checklist gives the first item with the
\* item id the completed value of the request and leaves the text, due_time and
\* completed flag of every other item and the order of the items as they
\* were; it reports success only when there is an item with that id; on a
\* checklist id that is not stored it answers 404 and changes nothing.
C21_ToggleItemFrame ==
    \A c \in Callers :
        (LatestDone(c) /\ jobs[c].op = "toggle_checklist_item") =>
            IF \E d \in jobs[c].before : d.id = jobs[c].id
            THEN LET old == DocIn(jobs[c].before, jobs[c].id).items
                     new == DocIn(checklists, jobs[c].id).items
                     first == FirstItem(old, jobs[c].item_id)
                 IN  /\ Len(new) = Len(old)
                     /\ \A i \in 1..Len(old) :
                           /\ new[i].id = old[i].id
                           /\ new[i].text = old[i].text
                           /\ new[i].due_time = old[i].due_time
                           /\ new[i].completed =
                                 IF i = first THEN jobs[c].completed ELSE old[i].completed
                     /\ jobs[c].status = 200 => first # 0
            ELSE /\ jobs[c].status = 404
                 /\ checklists = jobs[c].before


\* ------------------------------------------------------------------- C22

\* The request in slot c is an answered conversion, the latest request.
Converted(c) == LatestDone(c) /\ jobs[c].op = "convert_vet_to_checklist"

\* new is a checklist made from this visit: category "vet", the visit's pet,
\* and one item per instruction, in order, with its text and not completed.
MadeFrom(new, visit) ==
    /\ new.category = "vet"
    /\ new.pet_id = visit.pet_id
    /\ Len(new.items) = Len(visit.instructions)
    /\ \A i \in 1..Len(visit.instructions) :
          /\ new.items[i].text = visit.instructions[i]
          /\ new.items[i].completed = FALSE

\* C22: a conversion of a stored visit with k >= 1 instructions inserts exactly
\* one checklist, made from the visit, and it has k items; a conversion of a
\* visit without instructions is answered 400 and one of an id that is not
\* stored 404, and neither inserts anything; no conversion changes a visit.
C22_ConvertVetVisit ==
    \A c \in Callers :
        Converted(c) =>
            /\ vet_visits = RecordVetVisits
            /\ IF \A d \in vet_visits : d.id # jobs[c].id
               THEN jobs[c].status = 404 /\ checklists = jobs[c].before
               ELSE LET visit == DocIn(vet_visits, jobs[c].id)
                    IN  IF Len(visit.instructions) = 0
                        THEN jobs[c].status = 400 /\ checklists = jobs[c].before
                        ELSE /\ jobs[c].status = 200
                             /\ \E new \in checklists \ jobs[c].before :
                                   /\ checklists = jobs[c].before \cup {new}
                                   /\ \A d \in jobs[c].before : d.id # new.id
                                   /\ MadeFrom(new, visit)

\* The visit with two instructions was converted after another conversion:
\* the store holds the two seeded checklists and the two new ones.
C22_Witness ==
    \E c \in Callers :
        /\ Converted(c)
        /\ jobs[c].id = "v1"
        /\ jobs[c].status = 200
        /\ Cardinality(checklists) = Cardinality(RecordChecklists) + 2
        /\ Len(jobs[c].checklist.items) = 2


\* ------------------------------------------------------------------- C23

\* Two names are equal when letter case is ignored.
SameNameIgnoringCase(a, b) ==
    Len(a) = Len(b) /\ \A i \in 1..Len(a) : Lower(a[i]) = Lower(b[i])

\* C23: an access request is granted (success with a pet) exactly when a
\* stored pet has the requested name, letter case ignored, and the requested
\* birth date; every other request is answered 404, whatever characters its
\* pet_name holds; and no access request changes the stored pets.
C23_AccessIffNameAndDate ==
    response.op = "access_dashboard" =>
        LET pet_name == response.arg[1]
            birth_date == response.arg[2]
            entitled == \E p \in pets : /\ SameNameIgnoringCase(p.name, pet_name)
                                        /\ p.birth_date = birth_date
        IN  /\ response.status = IF entitled THEN 200 ELSE 404
            /\ pets = AccessPets


\* ------------------------------------------------------------------- C24

\* C24: every stored turn that carries an image is a user turn: no assistant
\* turn has an image, whatever chat calls, failures and clears came before.
C24_OnlyUserTurnsCarryImages ==
    \A i \in 1..Len(chat_messages) :
        Truthy(chat_messages[i].image) => chat_messages[i].role = "user"

\* A call with an image has succeeded: its user turn is stored with the image
\* and its assistant turn without one.
C24_Witness ==
    \E c \in Callers :
        /\ Succeeded(c)
        /\ Truthy(call[c].request.image)
        /\ Len(WrittenBy(c)) = 2
        /\ WrittenBy(c)[1].role = "user"
        /\ WrittenBy(c)[1].image = call[c].request.image
        /\ WrittenBy(c)[2].role = "assistant"
        /\ WrittenBy(c)[2].image = None


\* ------------------------------------------------------------------- C25

\* Call c ended in the error that the handler reports from its try block.
ReportedError(c) == Answered(c) /\ call[c].detail = "AI service error"

\* C25: a chat call reaches the reported error only from the replay of the
\* history or from the send of the new turn, and it has written nothing when
\* it does.
C25_ErrorOnlyFromProviderSteps ==
    \A c \in Callers :
        ReportedError(c) =>
            /\ call[c].raised \in {"replay", "submit"}
            /\ call[c].wrote = {}


\* ------------------------------------------------------------------- C26

\* The roles of a sequence of turns alternate, starting with a user turn and
\* ending with an assistant turn.
Alternates(turns) ==
    /\ Len(turns) % 2 = 0
    /\ \A i \in 1..Len(turns) :
          turns[i].role = IF i % 2 = 1 THEN "user" ELSE "assistant"

\* C26: with calls that do not overlap and store writes that do not fail,
\* whenever no call is between its two inserts the stored turns of every
\* session, read in created_at order, alternate user, assistant, ..., so
\* their number is even: after successful chats, failed chats and clears.
C26_TurnsAlternate ==
    (\A c \in Callers : call[c].pc # "insert_assistant") =>
        \A s \in Sessions :
            Alternates(SortByCreatedAt(SessionTurns(chat_messages, s)))

\* A call has succeeded on a session that held turns before it: the session
\* holds four turns or more, and they alternate.
C26_Witness ==
    \E c \in Callers :
        /\ Succeeded(c)
        /\ call[c].request.session_id = "s1"
        /\ Len(SessionTurns(chat_messages, "s1")) >= 4
        /\ Alternates(SessionTurns(chat_messages, "s1"))


\* ------------------------------------------------------------------- C27

\* The request in slot c is an answered item toggle on this checklist.
ToggledItemOf(c, checklist_id) ==
    /\ jobs[c].pc = "done"
    /\ jobs[c].op = "toggle_checklist_item"
    /\ jobs[c].id = checklist_id
    /\ jobs[c].status = 200

\* C27: when exactly two item toggles were made on a stored checklist, on two
\* different items of it, and both are answered, each of the two items has
\* the completed value its request asked for, however the two requests were
\* interleaved.
C27_NoLostItemToggle ==
    \A c, d \in Callers, doc \in checklists :
        (/\ c # d
         /\ ToggledItemOf(c, doc.id)
         /\ ToggledItemOf(d, doc.id)
         /\ jobs[c].item_id # jobs[d].item_id
         /\ FirstItem(doc.items, jobs[c].item_id) # 0
         /\ FirstItem(doc.items, jobs[d].item_id) # 0
         /\ \A e \in Callers \ {c, d} :
               ~(jobs[e].op = "toggle_checklist_item" /\ jobs[e].id = doc.id))
        => /\ doc.items[FirstItem(doc.items, jobs[c].item_id)].completed
                 = jobs[c].completed
           /\ doc.items[FirstItem(doc.items, jobs[d].item_id)].completed
                 = jobs[d].completed

\* ------------------------------------------------------------------- C28

\* The slots whose request is a reminder toggle on this reminder.
TogglesOf(reminder_id) ==
    {c \in Callers : jobs[c].op = "toggle_reminder" /\ jobs[c].id = reminder_id}

\* A truth value negated k times.
RECURSIVE NegatedTimes(_, _)
NegatedTimes(b, k) == IF k = 0 THEN b ELSE NegatedTimes(~b, k - 1)

\* C28: when the k toggles made on a stored reminder are all answered, its
\* is_active is its first value negated k times, however the requests were
\* interleaved.
C28_NoLostReminderToggle ==
    \A doc \in reminders :
        (\A c \in TogglesOf(doc.id) : jobs[c].pc = "done") =>
            doc.is_active =
                NegatedTimes(DocIn(CareReminders, doc.id).is_active,
                             Cardinality(TogglesOf(doc.id)))

====
